---- MODULE Spec2Model ----
(***************************************************************************)
(* A model of the entry-processing pipeline of Staticman                   *)
(* (src/unnamed/part_000, with the gateway steps of src/lib/Staticman.js). *)
(*                                                                         *)
(* Text is a sequence of symbols.  A symbol is one character (" ", "{",    *)
(* "}", "/") or an atomic run of characters that no operation of the code  *)
(* splits within this model ("fields.a", "example.com", "uid1").           *)
(* A JavaScript value is a record [t, s]: its typeof and its text.         *)
(* Arrays whose order no property depends on (allowedFields,               *)
(* requiredFields, the name lists of the validation errors) are sets.      *)
(***************************************************************************)
EXTENDS Integers, Sequences, FiniteSets, TLC

VARIABLES
    parameters,   \* this.parameters (req.params): [branch]
    configPath,   \* this.configPath: TRUE once setConfigPath has set it
    repoFile,     \* the configuration block held by the repository file
    submitted,    \* the fields as the request carried them
    fields,       \* this.fields, mutated in place by the pipeline
    options,      \* this.options
    uid,          \* this.uid
    siteConfig,   \* this.siteConfig: [cached, cfg]
    lastGet,      \* outcome of the last direct getSiteConfig call
    pc,           \* the next callback of processEntry's promise chain
    extended,     \* extendedFields, the result of _applyInternalFields
    data,         \* the serialized file, the result of _createFile
    result,       \* what the promise of processEntry settled with
    trace,        \* the stages the run has executed, in order
    calls,        \* the external calls the run has issued, in order
    classified,   \* the spam classifier's answer, "none" while not asked
    github,       \* the gateway's state-changing operations, in order
    review,       \* the review requests opened
    subs,         \* SubscriptionsManager calls (set / send)
    rp,           \* a call of _resolvePlaceholders: [subject, base, out, done]
    merged,       \* what the promise of processMerge settled with
    ids           \* the identifier sources and the submissions they served

vars == <<parameters, configPath, repoFile, submitted, fields, options, uid,
          siteConfig, lastGet, pc, extended, data, result, trace, calls,
          classified, github, review, subs, rp, merged, ids>>

\* what the constructor and setConfigPath fix for the life of the instance
request == <<parameters, configPath, repoFile, submitted, options, uid>>

-----------------------------------------------------------------------------
(* Values *)

Str(s) == [t |-> "string", s |-> s]

Undefined == [t |-> "undefined", s |-> <<>>]

Num0 == [t |-> "number", s |-> <<"0">>]

False == [t |-> "boolean", s |-> <<"false">>]

Null == [t |-> "null", s |-> <<>>]

\* JavaScript truthiness of a value: undefined, null, '' and 0 are falsy.
Truthy(v) == /\ v.t # "undefined"
             /\ v.t # "null"
             /\ ~(v.t = "string" /\ v.s = <<>>)
             /\ v # Num0

\* obj[key] of a plain object: undefined when the key is absent.
Get(obj, key) == IF key \in DOMAIN obj THEN obj[key] ELSE Undefined

\* obj with obj[key] = v assigned (the key is added when absent).
Put(obj, key, v) ==
    [k \in (DOMAIN obj) \cup {key} |-> IF k = key THEN v ELSE obj[k]]

\* delete obj[key]
Delete(obj, key) == [k \in (DOMAIN obj) \ {key} |-> obj[k]]

\* Object.assign(target, source): the keys of source win.
ObjectAssign(target, source) ==
    [k \in (DOMAIN target) \cup (DOMAIN source) |->
        IF k \in DOMAIN source THEN source[k] ELSE target[k]]

EmptyObject == [k \in {} |-> Undefined]

IsSpace(c) == c = " "

RECURSIVE TrimStart(_)
TrimStart(s) ==
    IF s # <<>> /\ IsSpace(Head(s)) THEN TrimStart(Tail(s)) ELSE s

RECURSIVE TrimEnd(_)
TrimEnd(s) ==
    IF s # <<>> /\ IsSpace(s[Len(s)])
    THEN TrimEnd(SubSeq(s, 1, Len(s) - 1))
    ELSE s

\* String.prototype.trim
Trim(s) == TrimEnd(TrimStart(s))

\* String.prototype.toLowerCase, on the symbols the model uses
ToLowerCase(sym) ==
    CASE sym = "JSON" -> "json"
      [] sym = "YAML" -> "yaml"
      [] sym = "EXAMPLE.COM" -> "example.com"
      [] sym = "My" -> "my"
      [] sym = "Title" -> "title"
      [] OTHER -> sym

\* md5(text): a one-way digest, a text that is no input text
Md5(s) == <<"md5(">> \o s \o <<")">>

-----------------------------------------------------------------------------
(* Errors and results *)

\* A rejection reason: a bare string ('IS_SPAM'), one {code, data} object,
\* an array of {code, data} objects, or a collaborator's own error object.
ErrItem(code, names) == [code |-> code, data |-> names]

ErrString(code) == [shape |-> "string", items |-> <<ErrItem(code, {})>>]

ErrObject(code, names) == [shape |-> "object", items |-> <<ErrItem(code, names)>>]

ErrArray(items) == [shape |-> "array", items |-> items]

ErrRaw(code) == [shape |-> "raw", items |-> <<ErrItem(code, {})>>]

NoError == [shape |-> "none", items |-> <<>>]

Codes(err) == {err.items[i].code : i \in 1..Len(err.items)}

NamesUnder(err, code) ==
    UNION {err.items[i].data : i \in {j \in 1..Len(err.items) : err.items[j].code = code}}

Pending == [status |-> "pending", error |-> NoError,
            fields |-> EmptyObject, redirect |-> Undefined]

Rejected(err) == [status |-> "rejected", error |-> err,
                  fields |-> EmptyObject, redirect |-> Undefined]

Resolved(f, r) == [status |-> "resolved", error |-> NoError,
                   fields |-> f, redirect |-> r]

-----------------------------------------------------------------------------
(* Site configuration *)

RequiredConfigFields == {"allowedFields", "branch", "format", "path"}

\* A configuration block as read from the repository file.  `defined` holds
\* the required keys that are not undefined in it; the other keys carry the
\* value SiteConfig's schema gives them (their default when not configured).
\* generatedFields is the list of [field, type, value, format] rules in key
\* order; transforms maps a field name to the name of its transform.
BaseConfig ==
    [present |-> TRUE,
     defined |-> RequiredConfigFields,
     allowedFields |-> {"name"},
     requiredFields |-> {},
     branch |-> <<"master">>,
     format |-> "json",
     path |-> <<"posts">>,
     filename |-> <<>>,
     commitMessage |-> <<"Add", " ", "data">>,
     moderation |-> TRUE,
     akismet |-> FALSE,
     notifications |-> FALSE,
     generatedFields |-> <<>>,
     transforms |-> [k \in {} |-> "md5"],
     allowedOrigins |-> {}]

\* objectPath.get(data, configPath.path) found nothing
NoConfigBlock == [BaseConfig EXCEPT !.present = FALSE, !.defined = {}]

NoSiteConfig == [cached |-> FALSE, cfg |-> NoConfigBlock]

\* url.parse(origin).hostname: the host of "scheme://host/path", lower-cased;
\* null for a text without "//".
Hostname(origin) ==
    IF Len(origin.s) >= 2 /\ origin.s[1] = "http://"
    THEN ToLowerCase(origin.s[2])
    ELSE "null"

\* the missing-field error naming only the first missing field
ValidateConfig_FirstMissing(config, opts) ==
    IF ~config.present THEN ErrObject("MISSING_CONFIG_BLOCK", {})
    ELSE IF RequiredConfigFields \ config.defined # {}
    THEN ErrObject("MISSING_CONFIG_FIELDS",
                   {CHOOSE k \in RequiredConfigFields \ config.defined : TRUE})
    ELSE NoError

\* the origin check passing every origin that is present
ValidateConfig_AnyOrigin(config, opts) ==
    IF ~config.present THEN ErrObject("MISSING_CONFIG_BLOCK", {})
    ELSE IF RequiredConfigFields \ config.defined # {}
    THEN ErrObject("MISSING_CONFIG_FIELDS", RequiredConfigFields \ config.defined)
    ELSE IF config.allowedOrigins # {} /\ ~Truthy(opts.origin)
    THEN ErrObject("MISSING_ORIGIN", {})
    ELSE NoError

\* _validateConfig's verdict; the assignment of this.siteConfig is in
\* ValidateConfigCaches below.
ValidateConfig(config, opts) ==
    IF ~config.present THEN ErrObject("MISSING_CONFIG_BLOCK", {})
    ELSE IF RequiredConfigFields \ config.defined # {}
    THEN ErrObject("MISSING_CONFIG_FIELDS", RequiredConfigFields \ config.defined)
    ELSE IF config.allowedOrigins # {}
    THEN IF Truthy(opts.origin)
         THEN IF \E o \in config.allowedOrigins : o = Hostname(opts.origin)
              THEN NoError
              ELSE ErrObject("INVALID_ORIGIN", {})
         ELSE ErrObject("MISSING_ORIGIN", {})
    ELSE NoError

\* this.siteConfig after _validateConfig(config): set on the last line of the
\* function, reached only when no error was returned.
ValidateConfigCaches(config, opts, cur) ==
    IF ValidateConfig(config, opts) = NoError
    THEN [cached |-> TRUE, cfg |-> config]
    ELSE cur

\* What a call of getSiteConfig(force) does: the promise's outcome, the new
\* this.siteConfig, whether the repository file was read and whether
\* _validateConfig was reached.  readOk is the
\* outcome of the gateway's readFile.
GetSiteConfig(force, readOk, cur, hasPath, file, params, opts) ==
    IF cur.cached /\ ~force
    THEN [err |-> NoError, site |-> cur, read |-> FALSE, validated |-> FALSE]
    ELSE IF ~hasPath
    THEN [err |-> ErrString("NO_CONFIG_PATH"), site |-> cur, read |-> FALSE,
          validated |-> FALSE]
    ELSE IF ~readOk
    THEN [err |-> ErrObject("GITHUB_READING_FILE", {}), site |-> cur, read |-> TRUE,
          validated |-> FALSE]
    ELSE IF ValidateConfig(file, opts) # NoError
    THEN [err |-> ValidateConfig(file, opts),
          site |-> ValidateConfigCaches(file, opts, cur), read |-> TRUE,
          validated |-> TRUE]
    ELSE IF file.branch # params.branch
    THEN [err |-> ErrString("BRANCH_MISMATCH"),
          site |-> ValidateConfigCaches(file, opts, cur), read |-> TRUE,
          validated |-> TRUE]
    ELSE [err |-> NoError,
          site |-> ValidateConfigCaches(file, opts, cur), read |-> TRUE,
          validated |-> TRUE]

-----------------------------------------------------------------------------
(* Field processor *)

\* invalidFields with the emptiness test made on the trimmed value
InvalidFields_AfterTrim(f, cfg) ==
    {k \in DOMAIN f : k \notin cfg.allowedFields
                      /\ ~(f[k].t = "string" /\ Trim(f[k].s) = <<>>)}

\* invalidFields of _validateFields: read before the field is trimmed
InvalidFields(f, cfg) ==
    {k \in DOMAIN f : k \notin cfg.allowedFields /\ f[k] # Str(<<>>)}

\* the fields after the trimming loop of _validateFields
TrimFields(f) ==
    [k \in DOMAIN f |-> IF f[k].t = "string" THEN Str(Trim(f[k].s)) ELSE f[k]]

\* missingRequiredFields of _validateFields: read after the trimming loop
MissingRequiredFields(f, cfg) ==
    {k \in cfg.requiredFields :
        Get(TrimFields(f), k) = Undefined \/ Get(TrimFields(f), k) = Str(<<>>)}

\* _validateFields: the errors array, or NoError for null
ValidateFields(f, cfg) ==
    LET missing == MissingRequiredFields(f, cfg)
        invalid == InvalidFields(f, cfg)
        e1 == IF missing # {}
              THEN <<ErrItem("MISSING_REQUIRED_FIELDS", missing)>> ELSE <<>>
        e2 == IF invalid # {}
              THEN <<ErrItem("INVALID_FIELDS", invalid)>> ELSE <<>>
    IN  IF e1 \o e2 # <<>> THEN ErrArray(e1 \o e2) ELSE NoError

\* fields[name] for a name given as a value (options.subscribe, options.field)
FieldNamed(f, name) ==
    IF name.t = "string" /\ Len(name.s) = 1 THEN Get(f, name.s[1]) ELSE Undefined

\* the classifier's verdict taken for a pass whatever it is
CheckForSpamOutcome_NoReject(cfg, verdict) ==
    [asked |-> cfg.akismet,
     err |-> IF cfg.akismet /\ verdict = "error" THEN ErrRaw("AKISMET_ERROR") ELSE NoError]

\* _checkForSpam: whether the classifier is asked, and the rejection reason
\* (NoError when the promise resolves with the fields)
CheckForSpamOutcome(cfg, verdict) ==
    IF ~cfg.akismet THEN [asked |-> FALSE, err |-> NoError]
    ELSE [asked |-> TRUE,
          err |-> CASE verdict = "error" -> ErrRaw("AKISMET_ERROR")
                    [] verdict = "spam" -> ErrString("IS_SPAM")
                    [] OTHER -> NoError]

\* _createDate: the clock read as epoch milliseconds, epoch seconds or ISO text
CreateDate(format) ==
    CASE format = "timestamp" -> [t |-> "number", s |-> <<"now_ms">>]
      [] format = "timestamp-seconds" -> [t |-> "number", s |-> <<"now_s">>]
      [] OTHER -> Str(<<"now_iso">>)

\* slugify(text).toLowerCase(): surrounding spaces dropped, inner spaces
\* become "-", letters lower-cased
Slugify(s) ==
    LET t == Trim(s)
    IN  [i \in 1..Len(t) |-> IF IsSpace(t[i]) THEN "-" ELSE ToLowerCase(t[i])]

\* typeof generatedField === 'object' && !(generatedField instanceof Array):
\* an entry written as a mapping, and also null, whose typeof is 'object'
IsRuleObject(rule) == rule.type # "literal" \/ rule.value = Null

\* an iteration of the forEach that throws a TypeError: generatedField.options
\* read of a null entry, and slugify called with the undefined value of a
\* field that data does not hold (it reads string.toString())
GeneratedFieldThrows(f, rule, opts) ==
    \/ rule.type = "literal" /\ rule.value = Null
    \/ /\ rule.type = "slugify"
       /\ opts.field.t = "string"
       /\ FieldNamed(f, opts.field) = Undefined

\* one iteration of the forEach of _applyGeneratedFields
ApplyGeneratedField(f, rule, opts) ==
    CASE ~IsRuleObject(rule) -> Put(f, rule.field, rule.value)
      [] rule.type = "date" -> Put(f, rule.field, CreateDate(rule.format))
      [] rule.type = "slugify" /\ opts.field.t = "string" ->
            Put(f, rule.field, Str(Slugify(FieldNamed(f, opts.field).s)))
      [] OTHER -> f

\* the forEach, which ends at the iteration that throws
RECURSIVE ApplyGeneratedRules(_, _, _)
ApplyGeneratedRules(f, rules, opts) ==
    IF rules = <<>> \/ GeneratedFieldThrows(f, Head(rules), opts) THEN f
    ELSE ApplyGeneratedRules(ApplyGeneratedField(f, Head(rules), opts), Tail(rules), opts)

\* whether an iteration of the forEach throws
RECURSIVE GenerationThrows(_, _, _)
GenerationThrows(f, rules, opts) ==
    /\ rules # <<>>
    /\ \/ GeneratedFieldThrows(f, Head(rules), opts)
       \/ GenerationThrows(ApplyGeneratedField(f, Head(rules), opts), Tail(rules), opts)

\* _applyGeneratedFields
ApplyGeneratedFields(f, cfg, opts) == ApplyGeneratedRules(f, cfg.generatedFields, opts)

\* _applyTransforms: md5 replaces a truthy field; every other transform name
\* leaves the field alone
ApplyTransforms(f, cfg) ==
    [k \in DOMAIN f |->
        IF k \in DOMAIN cfg.transforms /\ Truthy(f[k]) /\ cfg.transforms[k] = "md5"
        THEN Str(Md5(f[k].s))
        ELSE f[k]]

\* the internalFields object literal of _applyInternalFields
InternalFields(opts, id) ==
    IF Truthy(opts.parent)
    THEN [k \in {"_id", "_parent"} |-> IF k = "_id" THEN Str(id) ELSE opts.parent]
    ELSE [k \in {"_id"} |-> Str(id)]

\* _applyInternalFields: Object.assign(internalFields, data)
ApplyInternalFields(f, opts, id) == ObjectAssign(InternalFields(opts, id), f)

-----------------------------------------------------------------------------
(* File serializer *)

NoFile == [format |-> "none", header |-> EmptyObject, body |-> Undefined, parts |-> <<>>]

\* the field of transforms declared frontmatterContent (configurations
\* declare at most one), "" when there is none
ContentField(cfg) ==
    IF \E k \in DOMAIN cfg.transforms : cfg.transforms[k] = "frontmatterContent"
    THEN CHOOSE k \in DOMAIN cfg.transforms : cfg.transforms[k] = "frontmatterContent"
    ELSE ""

\* the serialized text: its encoding, the mapping it encodes, the body that
\* follows the mapping, and its parts in their order
File(format, header, body, parts) ==
    [format |-> format, header |-> header, body |-> body, parts |-> parts]

\* the content field left in the header of a frontmatter document
CreateFile_KeepsContent(f, cfg) ==
    LET fmt == ToLowerCase(cfg.format)
    IN  CASE fmt = "json" ->
               [err |-> NoError, fields |-> f,
                out |-> File("json", f, Undefined, <<"json">>)]
          [] fmt \in {"yaml", "yml"} ->
               [err |-> NoError, fields |-> f,
                out |-> File("yaml", f, Undefined, <<"yaml">>)]
          [] fmt = "frontmatter" ->
               IF ContentField(cfg) = ""
               THEN [err |-> ErrString("NO_FRONTMATTER_CONTENT_TRANSFORM"),
                     fields |-> f, out |-> NoFile]
               ELSE [err |-> NoError, fields |-> f,
                     out |-> File("frontmatter", f, Get(f, ContentField(cfg)),
                                  <<"---", "yaml", "---", "body">>)]
          [] OTHER -> [err |-> ErrString("INVALID_FORMAT"), fields |-> f, out |-> NoFile]

\* an unknown format serialized as JSON
CreateFile_DefaultsToJson(f, cfg) ==
    LET fmt == ToLowerCase(cfg.format)
    IN  CASE fmt \in {"yaml", "yml"} ->
               [err |-> NoError, fields |-> f,
                out |-> File("yaml", f, Undefined, <<"yaml">>)]
          [] fmt = "frontmatter" ->
               IF ContentField(cfg) = ""
               THEN [err |-> ErrString("NO_FRONTMATTER_CONTENT_TRANSFORM"),
                     fields |-> f, out |-> NoFile]
               ELSE [err |-> NoError, fields |-> Delete(f, ContentField(cfg)),
                     out |-> File("frontmatter", Delete(f, ContentField(cfg)),
                                  Get(f, ContentField(cfg)),
                                  <<"---", "yaml", "---", "body">>)]
          [] OTHER ->
               [err |-> NoError, fields |-> f,
                out |-> File("json", f, Undefined, <<"json">>)]

\* _createFile: the rejection reason (NoError when it resolves), the
\* serialized text, and the fields object as the call leaves it
CreateFile(f, cfg) ==
    LET fmt == ToLowerCase(cfg.format)
    IN  CASE fmt = "json" ->
               [err |-> NoError, fields |-> f,
                out |-> File("json", f, Undefined, <<"json">>)]
          [] fmt \in {"yaml", "yml"} ->
               [err |-> NoError, fields |-> f,
                out |-> File("yaml", f, Undefined, <<"yaml">>)]
          [] fmt = "frontmatter" ->
               IF ContentField(cfg) = ""
               THEN [err |-> ErrString("NO_FRONTMATTER_CONTENT_TRANSFORM"),
                     fields |-> f, out |-> NoFile]
               ELSE [err |-> NoError, fields |-> Delete(f, ContentField(cfg)),
                     out |-> File("frontmatter", Delete(f, ContentField(cfg)),
                                  Get(f, ContentField(cfg)),
                                  <<"---", "yaml", "---", "body">>)]
          [] OTHER -> [err |-> ErrString("INVALID_FORMAT"), fields |-> f, out |-> NoFile]

\* _getExtensionForFormat: the switch has no default, so any other format
\* gives undefined, which the path template prints as "undefined"
GetExtensionForFormat(format) ==
    LET fmt == ToLowerCase(format)
    IN  CASE fmt = "json" -> "json"
          [] fmt \in {"yaml", "yml"} -> "yml"
          [] fmt = "frontmatter" -> "md"
          [] OTHER -> "undefined"

-----------------------------------------------------------------------------
(* Placeholder resolver *)

\* the position of the first "}" of s after position i, 0 when there is none
RECURSIVE NextClose(_, _)
NextClose(s, i) ==
    IF i >= Len(s) THEN 0
    ELSE IF s[i + 1] = "}" THEN i + 1
    ELSE NextClose(s, i + 1)

\* the position of the first "{" of s at or after i that a "}" follows,
\* 0 when there is none
RECURSIVE NextOpen(_, _)
NextOpen(s, i) ==
    IF i > Len(s) THEN 0
    ELSE IF s[i] = "{" /\ NextClose(s, i) # 0 THEN i
    ELSE NextOpen(s, i + 1)

\* subject.match(/{(.*?)}/g): the matches from left to right, each from a
\* "{" to the first "}" after it
RECURSIVE Matches(_)
Matches(s) ==
    LET i == NextOpen(s, 1)
        j == NextClose(s, i)
    IN  IF i = 0 THEN <<>>
        ELSE <<SubSeq(s, i, j)>> \o Matches(SubSeq(s, j + 1, Len(s)))

\* subject.replace(pattern, newText) with a pattern that is not global:
\* only the first occurrence of m
RECURSIVE ReplaceAll_First(_, _, _)
ReplaceAll_First(s, m, new) ==
    IF Len(s) < Len(m) THEN s
    ELSE IF SubSeq(s, 1, Len(m)) = m
    THEN new \o SubSeq(s, Len(m) + 1, Len(s))
    ELSE <<Head(s)>> \o ReplaceAll_First(Tail(s), m, new)

\* subject.replace(new RegExp(escapedMatch, 'g'), newText): every
\* occurrence of the text m, left to right without overlap
RECURSIVE ReplaceAll(_, _, _)
ReplaceAll(s, m, new) ==
    IF Len(s) < Len(m) THEN s
    ELSE IF SubSeq(s, 1, Len(m)) = m
    THEN new \o ReplaceAll(SubSeq(s, Len(m) + 1, Len(s)), m, new)
    ELSE <<Head(s)>> \o ReplaceAll(Tail(s), m, new)

\* property.split('.') for the property names the model uses
SplitPath(sym) ==
    CASE sym = "fields.name" -> <<"fields", "name">>
      [] sym = "fields._id" -> <<"fields", "_id">>
      [] sym = "fields.title" -> <<"fields", "title">>
      [] sym = "fields._parent" -> <<"fields", "_parent">>
      [] sym = "options.parent" -> <<"options", "parent">>
      [] sym = "options.origin" -> <<"options", "origin">>
      [] OTHER -> <<sym>>

ObjectText == Str(<<"[object Object]">>)

\* objectPath.get(baseObject, property): the empty path gives the object
\* itself; a path that leads nowhere gives undefined
ObjectPathGet(base, property) ==
    IF property = <<>> THEN ObjectText
    ELSE IF Len(property) > 1 THEN Undefined
    ELSE LET path == SplitPath(property[1])
         IN  IF Len(path) = 1
             THEN IF path[1] \in {"fields", "options"} THEN ObjectText ELSE Undefined
             ELSE IF path[1] = "fields" THEN Get(base.fields, path[2])
             ELSE Get(base.options, path[2])

\* new Date().getTime() read k milliseconds after the first reading
Ms(k) ==
    CASE k = 0 -> "now_ms"
      [] k = 1 -> "now_ms+1"
      [] k = 2 -> "now_ms+2"
      [] OTHER -> "now_ms+n"

MaxTick == 1

\* The readings the clock gives to the n iterations of one call, one for
\* each iteration: the first is now_ms, a later one is never earlier.
Clocks(n) ==
    {[k \in 1..n |-> Ms(c[k])] :
        c \in {d \in [1..n -> 0..MaxTick] :
                  /\ n > 0 => d[1] = 0
                  /\ \A k \in 1..n : k < n => d[k] <= d[k + 1]}}

\* the clock of a call that runs within one millisecond
OneInstant(subject) == [k \in 1..Len(Matches(subject)) |-> Ms(0)]

\* newText of _resolvePlaceholders for one match, now the reading of the
\* clock in the iteration of the match
NewText(match, base, id, now) ==
    LET property == SubSeq(match, 2, Len(match) - 1)
    IN  IF property = <<"@timestamp">> THEN <<now>>
        ELSE IF property = <<"@id">> THEN id
        ELSE IF Truthy(ObjectPathGet(base, property))
        THEN ObjectPathGet(base, property).s
        ELSE <<>>

\* the forEach of _resolvePlaceholders over the matches found at the start
RECURSIVE ResolveMatches(_, _, _, _, _)
ResolveMatches(s, ms, base, id, clock) ==
    IF ms = <<>> THEN s
    ELSE ResolveMatches(ReplaceAll(s, Head(ms),
                                   NewText(Head(ms), base, id, Head(clock))),
                        Tail(ms), base, id, Tail(clock))

\* _resolvePlaceholders, clock[k] the reading of the clock in iteration k
ResolvePlaceholders(subject, base, id, clock) ==
    ResolveMatches(subject, Matches(subject), base, id, clock)

\* the path with its trailing slash kept
GetNewFilePath_KeepSlash(f, cfg, opts, id) ==
    LET base == [fields |-> f, options |-> opts]
        filename == IF cfg.filename # <<>>
                    THEN ResolvePlaceholders(cfg.filename, base, id, OneInstant(cfg.filename))
                    ELSE id
    IN  ResolvePlaceholders(cfg.path, base, id, OneInstant(cfg.path))
        \o <<"/">> \o filename \o <<".", GetExtensionForFormat(cfg.format)>>

\* _getNewFilePath
GetNewFilePath(f, cfg, opts, id) ==
    LET base == [fields |-> f, options |-> opts]
        filename == IF cfg.filename # <<>>
                    THEN ResolvePlaceholders(cfg.filename, base, id, OneInstant(cfg.filename))
                    ELSE id
        resolved == ResolvePlaceholders(cfg.path, base, id, OneInstant(cfg.path))
        path == IF resolved # <<>> /\ resolved[Len(resolved)] = "/"
                THEN SubSeq(resolved, 1, Len(resolved) - 1)
                ELSE resolved
    IN  path \o <<"/">> \o filename \o <<".", GetExtensionForFormat(cfg.format)>>

\* the payload appended whatever the notification settings
GeneratePRBody_Always(f, cfg, cpath, opts, params) ==
    [table |-> f,
     payload |-> <<[configPath |-> cpath, fields |-> f,
                    options |-> opts, parameters |-> params]>>]

\* _generatePRBody: the field table, and the notification payload that is
\* appended inside an HTML comment when notifications are enabled
GeneratePRBody(f, cfg, cpath, opts, params) ==
    [table |-> f,
     payload |-> IF cfg.notifications
                 THEN <<[configPath |-> cpath, fields |-> f,
                         options |-> opts, parameters |-> params]>>
                 ELSE <<>>]

-----------------------------------------------------------------------------
(* Version-control gateway *)

\* The step of the gateway at which a dispatch fails, "ok" when none does.
\* "fileExists" is a writeFile refused because the path already has content.
DirectOutcomes == {"ok", "writeFile", "fileExists"}

ReviewOutcomes == {"ok", "getBranch", "createBranch", "writeFile", "fileExists",
                   "createReview"}

\* from is the branch whose head commit a new branch starts at, onto the
\* base branch of a review request
GatewayCall(op, branch, path, file, ok) ==
    [op |-> op, branch |-> branch, path |-> path, data |-> file, ok |-> ok,
     from |-> <<>>, onto |-> <<>>, cause |-> "none"]

\* the calls of the review path in their order: head commit of the target
\* branch, new branch, file on the new branch, review request
ReviewCalls(target, newBranch, path, file) ==
    <<GatewayCall("getBranch", target, <<>>, NoFile, TRUE),
      [GatewayCall("createBranch", newBranch, <<>>, NoFile, TRUE) EXCEPT !.from = target],
      GatewayCall("writeFile", newBranch, path, file, TRUE),
      [GatewayCall("createReview", newBranch, <<>>, NoFile, TRUE) EXCEPT !.onto = target]>>

\* the number of calls of the review path issued when it fails at `outcome`
ReviewCallsIssued(outcome) ==
    CASE outcome = "getBranch" -> 1
      [] outcome = "createBranch" -> 2
      [] outcome \in {"writeFile", "fileExists"} -> 3
      [] OTHER -> 4

\* the review path with the file written on the target branch
WriteFileAndSendPR_OnTarget(target, newBranch, path, file, outcome) ==
    LET all == ReviewCalls(target, target, path, file)
        n == ReviewCallsIssued(outcome)
    IN  [i \in 1..n |->
            IF i = n /\ outcome # "ok" THEN [all[i] EXCEPT !.ok = FALSE] ELSE all[i]]

\* the review path with every call issued whatever the one before it answered
WriteFileAndSendPR_NoStop(target, newBranch, path, file, outcome) ==
    LET all == ReviewCalls(target, newBranch, path, file)
        n == ReviewCallsIssued(outcome)
    IN  [i \in 1..4 |->
            IF i = n /\ outcome # "ok" THEN [all[i] EXCEPT !.ok = FALSE] ELSE all[i]]

\* writeFileAndSendPR: each call is issued only when the one before it
\* succeeded; the last call issued is the failing one
WriteFileAndSendPR(target, newBranch, path, file, outcome) ==
    LET all == ReviewCalls(target, newBranch, path, file)
        n == ReviewCallsIssued(outcome)
    IN  [i \in 1..n |->
            IF i = n /\ outcome # "ok" THEN [all[i] EXCEPT !.ok = FALSE] ELSE all[i]]

\* writeFile on the target branch
WriteFile(target, path, file, outcome) ==
    <<GatewayCall("writeFile", target, path, file, outcome = "ok")>>

\* The error the host's createOrUpdateFile call fails with, by what the
\* catch of writeFile reads in it: no message property, an empty message, a
\* message that is no JSON, and a JSON message that is null, an object
\* without message, an object whose message is another text, or an object
\* whose message says that "sha" wasn't supplied (the path has content).
WriteErrors ==
    {"noMessage", "emptyMessage", "notJson", "jsonNull", "jsonNoMessage",
     "jsonOtherMessage", "jsonShaMessage"}

\* the underlying errors a failure of the kind `outcome` comes with
CausesOf(outcome) ==
    CASE outcome = "fileExists" -> {"jsonShaMessage"}
      [] outcome = "writeFile" -> WriteErrors \ {"jsonShaMessage"}
      [] OTHER -> {"none"}

\* the catch of writeFile without its try block: the TypeError of reading
\* includes of an undefined message, and the SyntaxError of JSON.parse, escape
WriteFileFailure_Unguarded(cause) ==
    CASE cause \in {"noMessage", "emptyMessage"} -> ErrObject("GITHUB_WRITING_FILE", {})
      [] cause = "notJson" -> ErrRaw("SyntaxError")
      [] cause = "jsonNull" -> ErrObject("GITHUB_WRITING_FILE", {})
      [] cause = "jsonNoMessage" -> ErrRaw("TypeError")
      [] cause = "jsonShaMessage" -> ErrObject("GITHUB_FILE_ALREADY_EXISTS", {})
      [] OTHER -> ErrObject("GITHUB_WRITING_FILE", {})

\* the catch of GitHub.writeFile: a falsy message skips the parsing; what
\* JSON.parse or the read of parsedError.message.includes throws is caught
\* and logged; parsedError?.message of null is undefined; only a message
\* that includes the sha text gives GITHUB_FILE_ALREADY_EXISTS
WriteFileFailure(cause) ==
    CASE cause \in {"noMessage", "emptyMessage"} -> ErrObject("GITHUB_WRITING_FILE", {})
      [] cause = "notJson" -> ErrObject("GITHUB_WRITING_FILE", {})
      [] cause = "jsonNull" -> ErrObject("GITHUB_WRITING_FILE", {})
      [] cause = "jsonNoMessage" -> ErrObject("GITHUB_WRITING_FILE", {})
      [] cause = "jsonShaMessage" -> ErrObject("GITHUB_FILE_ALREADY_EXISTS", {})
      [] OTHER -> ErrObject("GITHUB_WRITING_FILE", {})

\* the calls with the underlying error noted on the write that failed
WithCause(issued, cause) ==
    [i \in 1..Len(issued) |->
        IF issued[i].op = "writeFile" /\ ~issued[i].ok
        THEN [issued[i] EXCEPT !.cause = cause]
        ELSE issued[i]]

\* the rejection reason of a failed dispatch
GatewayError(moderated, cause) ==
    IF moderated THEN ErrObject("GITHUB_CREATING_PR", {})
    ELSE WriteFileFailure(cause)

SubsCall(op, thread, address, f, ok) ==
    [op |-> op, thread |-> thread, address |-> address, fields |-> f, ok |-> ok]

\* the SubscriptionsManager calls of processEntry's dispatch callback; setOk
\* and sendOk tell whether the promises of set and send are fulfilled
SubscriptionCalls(f, cfg, opts, setOk, sendOk) ==
    LET subscriptions == cfg.notifications
        set == IF subscriptions /\ Truthy(opts.parent) /\ Truthy(opts.subscribe)
                  /\ Truthy(FieldNamed(f, opts.subscribe))
               THEN <<SubsCall("set", opts.parent, FieldNamed(f, opts.subscribe),
                               EmptyObject, setOk)>>
               ELSE <<>>
        send == IF ~cfg.moderation /\ subscriptions /\ Truthy(opts.parent)
                THEN <<SubsCall("send", opts.parent, Undefined, f, sendOk)>>
                ELSE <<>>
    IN  set \o send

\* a rejected set or send promise taken for the dispatch callback's own
DispatchRejection_Notify(cfg, outcome, cause, setOk, sendOk) ==
    IF ~setOk \/ ~sendOk THEN ErrRaw("NOTIFICATION_FAILED")
    ELSE IF outcome = "ok" THEN NoError
    ELSE GatewayError(cfg.moderation, cause)

\* the rejection reason of the dispatch callback (NoError when the gateway
\* promise it returns is fulfilled): the promise of set has its own catch
\* and the promise of send is not returned, so neither reaches the chain
DispatchRejection(cfg, outcome, cause, setOk, sendOk) ==
    IF outcome = "ok" THEN NoError ELSE GatewayError(cfg.moderation, cause)

\* 'staticman_' + this.uid
ReviewBranch(id) == <<"staticman_">> \o id

-----------------------------------------------------------------------------
(* The request instance *)

NoGet == [called |-> FALSE, force |-> FALSE, err |-> NoError, validated |-> FALSE,
          afterMismatch |-> FALSE]

\* the record of a getSiteConfig call: its arguments and outcome, and whether
\* an earlier call on the instance had failed with BRANCH_MISMATCH
GetRecord(force, r) ==
    [called |-> TRUE, force |-> force, err |-> r.err, validated |-> r.validated,
     afterMismatch |-> lastGet.afterMismatch
                       \/ (lastGet.called /\ lastGet.err = ErrString("BRANCH_MISMATCH"))]

\* processMerge has not been called
NoMerge == [status |-> "none", error |-> NoError, fresh |-> TRUE]

\* no identifier has been generated yet: the clock reads a time later than
\* the generator's initial _lastMSecs
NoIds == [impl |-> "uuid", clock |-> 1, lastMSecs |-> 0, lastNSecs |-> 0, runs |-> <<>>]

NoPath == [set |-> FALSE, file |-> <<>>, path |-> <<>>]

\* setConfigPath({file, path})
SomePath == [set |-> TRUE, file |-> <<"staticman.yml">>, path |-> <<"comments">>]

MkOptions(parent, subscribe, redirect, origin) ==
    [parent |-> parent, subscribe |-> subscribe, redirect |-> redirect,
     origin |-> origin, field |-> Undefined]

\* every object with keys among names and values among values
AllObjects(names, values) == UNION {[d -> values] : d \in SUBSET names}

\* the instance as the constructor and setConfigPath leave it, for a request
\* with the given fields and options and a repository holding `file`
Constructed(f, opts, cpath, file) ==
    /\ parameters = [branch |-> <<"master">>]
    /\ configPath = cpath
    /\ repoFile = file
    /\ submitted = f
    /\ fields = f
    /\ options = opts
    /\ uid = <<"uid1">>
    /\ siteConfig = NoSiteConfig
    /\ lastGet = NoGet
    /\ pc = "idle"
    /\ extended = EmptyObject
    /\ data = NoFile
    /\ result = Pending
    /\ trace = <<>>
    /\ calls = <<>>
    /\ classified = "none"
    /\ github = <<>>
    /\ review = <<>>
    /\ subs = <<>>
    /\ rp = [subject |-> <<>>, out |-> <<>>, clock |-> <<>>, done |-> FALSE]
    /\ merged = NoMerge
    /\ ids = NoIds

Transform(field, name) == [k \in {field} |-> name]

NoTransforms == [k \in {} |-> "md5"]

\* Configurations that differ in what the pipeline does after validation
PipelineConfigs ==
    {NoConfigBlock} \cup
    {[BaseConfig EXCEPT !.moderation = m, !.akismet = a, !.notifications = n,
                        !.format = f, !.transforms = t, !.requiredFields = r] :
        m \in BOOLEAN, a \in BOOLEAN, n \in BOOLEAN,
        f \in {"json", "frontmatter", "xml"},
        t \in {NoTransforms, Transform("name", "md5"),
               Transform("name", "frontmatterContent")},
        r \in {{}, {"name"}}}

PipelineFields == AllObjects({"name", "x"}, {Str(<<>>), Str(<<" ", "a">>)})

PipelineOptions ==
    {MkOptions(p, s, Undefined, Undefined) :
        p \in {Undefined, Str(<<"p1">>)}, s \in {Undefined, Str(<<"name">>)}}

Init ==
    \E f \in PipelineFields, o \in PipelineOptions, c \in PipelineConfigs :
        Constructed(f, o, SomePath, c)

\* Configurations that differ in what _validateConfig and getSiteConfig check
ValidationConfigs ==
    {NoConfigBlock} \cup
    {[BaseConfig EXCEPT !.defined = d, !.branch = b, !.allowedOrigins = o,
                        !.moderation = m, !.notifications = n] :
        d \in SUBSET RequiredConfigFields,
        b \in {<<"master">>, <<"dev">>},
        o \in {{}, {"example.com"}, {"example.com", "other.org"}},
        m \in BOOLEAN, n \in BOOLEAN}

Origins ==
    {Undefined, Str(<<>>), Str(<<"http://", "example.com", "/page">>),
     Str(<<"http://", "evil.com">>), Str(<<"example.com">>),
     Str(<<"http://", "EXAMPLE.COM">>)}

InitConfig ==
    \E f \in {EmptyObject, [k \in {"name"} |-> Str(<<"a">>)]},
       o \in {MkOptions(Undefined, Undefined, Undefined, g) : g \in Origins},
       p \in {NoPath, SomePath}, c \in ValidationConfigs :
        Constructed(f, o, p, c)

IdRule == [field |-> "_id", type |-> "literal", value |-> Str(<<"g">>), format |-> ""]

\* Configurations that differ in what the field processor does
FieldConfigs ==
    {[BaseConfig EXCEPT !.allowedFields = a, !.requiredFields = r,
                        !.generatedFields = g, !.moderation = m] :
        a \in SUBSET {"name", "_id"}, r \in SUBSET {"name", "_id"},
        g \in {<<>>, <<IdRule>>}, m \in BOOLEAN}

FieldValues == {Str(<<>>), Str(<<" ">>), Str(<<" ", "a">>), Num0}

InitFields ==
    \E f \in AllObjects({"name", "_id"}, FieldValues),
       o \in {MkOptions(p, Undefined, Undefined, Undefined) :
                p \in {Undefined, Str(<<"p1">>)}},
       c \in FieldConfigs :
        Constructed(f, o, SomePath, c)

\* generatedFields: {date: {type: 'date', options: {format: 'timestamp'}}}
DateRule == [field |-> "date", type |-> "date", value |-> Undefined, format |-> "timestamp"]

\* transforms: {name: 'frontmatterContent', title: 'md5'}
ContentAndDigest ==
    [k \in {"name", "title"} |-> IF k = "name" THEN "frontmatterContent" ELSE "md5"]

\* path templates: plain, with a trailing separator, with two, with placeholders
PathTemplates ==
    {<<"posts">>, <<"posts", "/">>, <<"posts", "/", "/">>,
     <<"posts", "/", "{", "options.parent", "}", "/", "{", "@id", "}">>}

\* filename templates: none configured, or the entry's title field
FilenameTemplates == {<<>>, <<"{", "fields.title", "}">>}

\* Configurations that differ in what the serializer and the path
\* resolution do
FileConfigs ==
    {[BaseConfig EXCEPT !.allowedFields = {"name", "title"}, !.format = f,
                        !.path = p, !.filename = n, !.transforms = t,
                        !.generatedFields = <<DateRule>>, !.moderation = m] :
        f \in {"json", "JSON", "yaml", "yml", "frontmatter", "xml"},
        p \in PathTemplates, n \in FilenameTemplates,
        t \in {NoTransforms, Transform("name", "frontmatterContent"), ContentAndDigest},
        m \in BOOLEAN}

InitFiles ==
    \E f \in {g \in AllObjects({"name", "title"}, {Str(<<" ", "Hello">>), Str(<<"T">>)}) :
                /\ "name" \in DOMAIN g => g["name"] = Str(<<" ", "Hello">>)
                /\ "title" \in DOMAIN g => g["title"] = Str(<<"T">>)},
       o \in {MkOptions(p, Undefined, r, Undefined) :
                p \in {Undefined, Str(<<"123">>)},
                r \in {Undefined, Str(<<"http://", "example.com", "/thanks">>)}},
       c \in FileConfigs :
        Constructed(f, o, SomePath, c)

\* Entries of generatedFields: a text, an array, null, a date rule, a
\* slugify rule and a rule of a type the pipeline does not know
FixedName == [field |-> "name", type |-> "literal", value |-> Str(<<"fixed">>), format |-> ""]

TagList ==
    [field |-> "tags", type |-> "literal", value |-> [t |-> "array", s |-> <<"a", "b">>],
     format |-> ""]

NullFlag == [field |-> "flag", type |-> "literal", value |-> Null, format |-> ""]

SlugRule == [field |-> "slug", type |-> "slugify", value |-> Undefined, format |-> ""]

UpperRule == [field |-> "title", type |-> "uppercase", value |-> Undefined, format |-> ""]

\* the entries r of rules that are in chosen, in the order of rules
RECURSIVE Chosen(_, _)
Chosen(rules, chosen) ==
    IF rules = <<>> THEN <<>>
    ELSE (IF Head(rules) \in chosen THEN <<Head(rules)>> ELSE <<>>)
         \o Chosen(Tail(rules), chosen)

GeneratedRules == <<TagList, DateRule, SlugRule, FixedName, UpperRule, NullFlag>>

\* Configurations that differ in their generatedFields
GeneratedConfigs ==
    {[BaseConfig EXCEPT !.allowedFields = {"name", "title"},
                        !.generatedFields = Chosen(GeneratedRules, c)] :
        c \in SUBSET {GeneratedRules[i] : i \in 1..Len(GeneratedRules)}}

InitGenerated ==
    \E f \in {g \in AllObjects({"name", "title"},
                               {Str(<<"a">>), Str(<<" ", "My", " ", "Title">>)}) :
                /\ "name" \in DOMAIN g => g["name"] = Str(<<"a">>)
                /\ "title" \in DOMAIN g => g["title"] = Str(<<" ", "My", " ", "Title">>)},
       o \in {[MkOptions(Undefined, Undefined, Undefined, Undefined) EXCEPT !.field = n] :
                n \in {Undefined, Str(<<"title">>), Num0}},
       c \in GeneratedConfigs :
        Constructed(f, o, SomePath, c)

\* getSiteConfig(force) called on the instance before processEntry
GetSiteConfigCall ==
    /\ pc = "idle"
    /\ \E force \in BOOLEAN, readOk \in BOOLEAN :
          LET r == GetSiteConfig(force, readOk, siteConfig, configPath.set,
                                 repoFile, parameters, options)
          IN  /\ siteConfig' = r.site
              /\ lastGet' = GetRecord(force, r)
    /\ UNCHANGED <<request, merged, ids, fields, pc, extended, data, result, trace, calls,
                   classified, github, review, subs, rp>>

\* processEntry: this.getSiteConfig()
ConfigLoading ==
    /\ pc = "idle"
    /\ \E readOk \in BOOLEAN :
          LET r == GetSiteConfig(FALSE, readOk, siteConfig, configPath.set,
                                 repoFile, parameters, options)
          IN  /\ siteConfig' = r.site
              /\ lastGet' = GetRecord(FALSE, r)
              /\ calls' = IF r.read THEN calls \o <<"readFile">> ELSE calls
              /\ pc' = IF r.err = NoError THEN "SpamCheck" ELSE "done"
              /\ result' = IF r.err = NoError THEN result ELSE Rejected(r.err)
    /\ trace' = trace \o <<"ConfigLoading">>
    /\ UNCHANGED <<request, merged, ids, fields, extended, data, classified, github, review, subs, rp>>

\* processEntry: this._checkForSpam(this.fields).  verdict is the
\* classifier's answer, consulted only when akismet.enabled is set.
CheckForSpam ==
    /\ pc = "SpamCheck"
    /\ \E verdict \in {"ham", "spam", "error"} :
          LET r == CheckForSpamOutcome(siteConfig.cfg, verdict)
          IN  /\ calls' = IF r.asked THEN calls \o <<"checkSpam">> ELSE calls
              /\ classified' = IF r.asked THEN verdict ELSE classified
              /\ pc' = IF r.err = NoError THEN "FieldValidation" ELSE "done"
              /\ result' = IF r.err = NoError THEN result ELSE Rejected(r.err)
    /\ trace' = trace \o <<"SpamCheck">>
    /\ UNCHANGED <<request, merged, ids, fields, siteConfig, lastGet, extended, data, github, review,
                   subs, rp>>

\* processEntry: the callback that validates, generates and transforms
ProcessFields ==
    /\ pc = "FieldValidation"
    /\ LET cfg == siteConfig.cfg
           errors == ValidateFields(fields, cfg)
           trimmed == TrimFields(fields)
       IN  IF errors # NoError
           THEN /\ fields' = trimmed
                /\ result' = Rejected(errors)
                /\ pc' = "done"
                /\ trace' = trace \o <<"FieldValidation">>
           ELSE IF GenerationThrows(trimmed, cfg.generatedFields, options)
           THEN /\ fields' = ApplyGeneratedFields(trimmed, cfg, options)
                /\ result' = Rejected(ErrRaw("TypeError"))
                /\ pc' = "done"
                /\ trace' = trace \o <<"FieldValidation", "FieldGeneration">>
           ELSE /\ fields' = ApplyTransforms(
                                 ApplyGeneratedFields(trimmed, cfg, options), cfg)
                /\ pc' = "InternalFieldInjection"
                /\ trace' = trace \o <<"FieldValidation", "FieldGeneration", "Transform">>
                /\ UNCHANGED result
    /\ UNCHANGED <<request, merged, ids, siteConfig, lastGet, extended, data, calls, classified,
                   github, review, subs, rp>>

\* processEntry: this._applyInternalFields(transformedFields)
InjectInternalFields ==
    /\ pc = "InternalFieldInjection"
    /\ extended' = ApplyInternalFields(fields, options, uid)
    /\ pc' = "Serialization"
    /\ trace' = trace \o <<"InternalFieldInjection">>
    /\ UNCHANGED <<request, merged, ids, fields, siteConfig, lastGet, data, result, calls,
                   classified, github, review, subs, rp>>

\* the serialization callback with its rejection dropped
Serialize_Continues ==
    /\ pc = "Serialization"
    /\ LET r == CreateFile(extended, siteConfig.cfg)
       IN  /\ extended' = r.fields
           /\ data' = r.out
           /\ pc' = "Dispatch"
           /\ result' = IF r.err = NoError THEN result ELSE Rejected(r.err)
    /\ trace' = trace \o <<"Serialization">>
    /\ UNCHANGED <<request, merged, ids, fields, siteConfig, lastGet, calls, classified, github, review,
                   subs, rp>>

\* processEntry: this._createFile(extendedFields)
Serialize ==
    /\ pc = "Serialization"
    /\ LET r == CreateFile(extended, siteConfig.cfg)
       IN  /\ extended' = r.fields
           /\ data' = r.out
           /\ pc' = IF r.err = NoError THEN "Dispatch" ELSE "done"
           /\ result' = IF r.err = NoError THEN result ELSE Rejected(r.err)
    /\ trace' = trace \o <<"Serialization">>
    /\ UNCHANGED <<request, merged, ids, fields, siteConfig, lastGet, calls, classified, github, review,
                   subs, rp>>

\* processEntry: the callback that resolves the path, calls the
\* subscriptions manager and hands the file to the gateway.  outcome is what
\* the gateway answers.
Dispatch ==
    /\ pc = "Dispatch"
    /\ LET cfg == siteConfig.cfg
           filePath == GetNewFilePath(fields, cfg, options, uid)
           newBranch == ReviewBranch(uid)
       IN  \E outcome \in ReviewOutcomes, cause \in WriteErrors \cup {"none"},
              setOk \in BOOLEAN, sendOk \in BOOLEAN :
             /\ cfg.moderation \/ outcome \in DirectOutcomes
             /\ cause \in CausesOf(outcome)
             /\ subs' = subs \o SubscriptionCalls(fields, cfg, options, setOk, sendOk)
             /\ github' = github \o WithCause(
                    IF cfg.moderation
                    THEN WriteFileAndSendPR(parameters.branch, newBranch, filePath,
                                            data, outcome)
                    ELSE WriteFile(parameters.branch, filePath, data, outcome),
                    cause)
             /\ review' = IF cfg.moderation /\ outcome = "ok"
                          THEN review \o <<[head |-> newBranch,
                                            base |-> parameters.branch,
                                            body |-> GeneratePRBody(fields, cfg,
                                                       configPath, options, parameters)]>>
                          ELSE review
             /\ calls' = calls \o <<"gateway">>
             /\ pc' = IF DispatchRejection(cfg, outcome, cause, setOk, sendOk) = NoError
                      THEN "Result" ELSE "done"
             /\ result' = IF DispatchRejection(cfg, outcome, cause, setOk, sendOk) = NoError
                          THEN result
                          ELSE Rejected(DispatchRejection(cfg, outcome, cause, setOk, sendOk))
    /\ trace' = trace \o <<"PathResolution", "Dispatch">>
    /\ UNCHANGED <<request, merged, ids, fields, siteConfig, lastGet, extended, data, classified, rp>>

\* the success result without the caller's redirect
SuccessResult_NoRedirect(f, opts) == Resolved(f, False)

\* {fields: this.fields, redirect: this.options.redirect ? ... : false}
SuccessResult(f, opts) ==
    Resolved(f, IF Truthy(opts.redirect) THEN opts.redirect ELSE False)

\* processEntry: the last callback, which builds the success result
Finish ==
    /\ pc = "Result"
    /\ result' = SuccessResult(fields, options)
    /\ pc' = "done"
    /\ trace' = trace \o <<"Result">>
    /\ UNCHANGED <<request, merged, ids, fields, siteConfig, lastGet, extended, data, calls, classified,
                   github, review, subs, rp>>

\* the payloads a merge event may carry for this request: its options, or
\* those of an entry of the thread p2
MergeOptions == {options, [options EXCEPT !.parent = Str(<<"p2">>)]}

\* the callback of processMerge with the outcome of getSiteConfig ignored
MergeOutcome_Unchecked(r, po, pf, sendOk) ==
    [sent |-> <<SubsCall("send", po.parent, Undefined, pf, sendOk)>>,
     status |-> IF r.err # NoError \/ ~sendOk THEN "rejected" ELSE "resolved",
     error |-> IF r.err # NoError THEN r.err
               ELSE IF ~sendOk THEN ErrRaw("SEND_FAILED") ELSE NoError]

\* processMerge after its getSiteConfig call r: the send call it makes and
\* what its promise settles with.  The callback runs only when getSiteConfig
\* resolved; _initialiseSubscriptions gives null when notifications are not
\* enabled, and calling send on null throws.
MergeOutcome(r, po, pf, sendOk) ==
    IF r.err # NoError
    THEN [sent |-> <<>>, status |-> "rejected", error |-> r.err]
    ELSE IF ~r.site.cfg.notifications
    THEN [sent |-> <<>>, status |-> "rejected", error |-> ErrRaw("TypeError")]
    ELSE [sent |-> <<SubsCall("send", po.parent, Undefined, pf, sendOk)>>,
          status |-> IF sendOk THEN "resolved" ELSE "rejected",
          error |-> IF sendOk THEN NoError ELSE ErrRaw("SEND_FAILED")]

\* processMerge(fields, options), called on the instance instead of
\* processEntry
ProcessMerge ==
    /\ pc = "idle"
    /\ \E po \in MergeOptions, readOk \in BOOLEAN, sendOk \in BOOLEAN :
          LET pf == fields
              r == GetSiteConfig(FALSE, readOk, siteConfig, configPath.set,
                                 repoFile, parameters, po)
              m == MergeOutcome(r, po, pf, sendOk)
          IN  /\ fields' = pf
              /\ options' = po
              /\ siteConfig' = r.site
              /\ lastGet' = GetRecord(FALSE, r)
              /\ calls' = IF r.read THEN calls \o <<"readFile">> ELSE calls
              /\ subs' = subs \o m.sent
              /\ merged' = [status |-> m.status, error |-> m.error,
                            fresh |-> ~lastGet.called]
    /\ pc' = "merged"
    /\ UNCHANGED <<parameters, configPath, repoFile, submitted, uid, ids, extended, data,
                   result, trace, classified, github, review, rp>>

Next ==
    \/ GetSiteConfigCall
    \/ ProcessMerge
    \/ ConfigLoading
    \/ CheckForSpam
    \/ ProcessFields
    \/ InjectInternalFields
    \/ Serialize
    \/ Dispatch
    \/ Finish

\* a call of _resolvePlaceholders(subject, {fields, options}) on the instance
ResolveCall ==
    /\ ~rp.done
    /\ \E clock \in Clocks(Len(Matches(rp.subject))) :
          rp' = [rp EXCEPT !.out = ResolvePlaceholders(
                                      rp.subject,
                                      [fields |-> fields, options |-> options],
                                      uid, clock),
                          !.clock = clock,
                          !.done = TRUE]
    /\ UNCHANGED <<request, merged, ids, fields, siteConfig, lastGet, pc, extended, data, result,
                   trace, calls, classified, github, review, subs>>

NextResolve == ResolveCall

MaxTemplateLen == 6

TemplateSymbols == {"{", "}", "fields.name", "fields._id", "@id", "@timestamp"}

Templates == UNION {[1..n -> TemplateSymbols] : n \in 0..MaxTemplateLen}

ResolveFields ==
    {f \in AllObjects({"name", "_id"},
                      {Str(<<"a">>), Str(<<"{", "fields._id", "}">>), Num0}) :
        "_id" \in DOMAIN f => f["_id"] = Str(<<"a">>)}

InitResolve ==
    \E t \in Templates, f \in ResolveFields :
        /\ parameters = [branch |-> <<"master">>]
        /\ configPath = SomePath
        /\ repoFile = BaseConfig
        /\ submitted = f
        /\ fields = f
        /\ options = MkOptions(Undefined, Undefined, Undefined, Undefined)
        /\ uid = <<"uid1">>
        /\ siteConfig = [cached |-> TRUE, cfg |-> BaseConfig]
        /\ lastGet = NoGet
        /\ pc = "resolve"
        /\ extended = EmptyObject
        /\ data = NoFile
        /\ result = Pending
        /\ trace = <<>>
        /\ calls = <<>>
        /\ classified = "none"
        /\ github = <<>>
        /\ review = <<>>
        /\ subs = <<>>
        /\ rp = [subject |-> t, out |-> <<>>, clock |-> <<>>, done |-> FALSE]
        /\ merged = NoMerge
        /\ ids = NoIds

-----------------------------------------------------------------------------
(* Unique entry identifiers of several submissions *)

MaxClock == 3

MaxRuns == 2

Repos == {"repo1", "repo2"}

\* an identifier: the generator, the text it digests, the time and the
\* counter it is made of
Uid(gen, key, ms, n) == [gen |-> gen, key |-> key, ms |-> ms, n |-> n]

\* uuid.v1(): the clock in milliseconds and a counter that restarts when the
\* clock has advanced since the last call and is incremented when it has not;
\* the generator keeps both for the next call
UuidV1(g) ==
    LET nsecs == IF g.clock > g.lastMSecs THEN 0 ELSE g.lastNSecs + 1
    IN  [uid |-> Uid("uuid", <<>>, g.clock, nsecs),
         lastMSecs |-> g.clock, lastNSecs |-> nsecs]

\* sha1(options.username + options.repo + new Date().getTime())
Sha1Uid(username, repo, ms) == Uid("sha1", <<username, repo>>, ms, 0)

\* a submission: the repository it is for, its identifier, and how far its
\* review path has come
Run(repo, id) == [repo |-> repo, uid |-> id, step |-> "new"]

\* 'staticman_' + uid
BranchOf(run) == [prefix |-> "staticman_", uid |-> run.uid]

\* the submissions that have created the branch of run i in its repository
Holders(i) ==
    {j \in 1..Len(ids.runs) :
        /\ j # i
        /\ ids.runs[j].repo = ids.runs[i].repo
        /\ BranchOf(ids.runs[j]) = BranchOf(ids.runs[i])
        /\ ids.runs[j].step \in {"branched", "written"}}

\* time passes between two requests
TickClock ==
    /\ ids.clock < MaxClock
    /\ ids' = [ids EXCEPT !.clock = @ + 1]
    /\ UNCHANGED <<request, merged, fields, siteConfig, lastGet, pc, extended, data,
                   result, trace, calls, classified, github, review, subs, rp>>

\* new Staticman(req): this.uid = uuid.v1()
NewRequest ==
    /\ ids.impl = "uuid"
    /\ Len(ids.runs) < MaxRuns
    /\ \E repo \in Repos :
          LET g == UuidV1(ids)
          IN  ids' = [ids EXCEPT !.lastMSecs = g.lastMSecs, !.lastNSecs = g.lastNSecs,
                                 !.runs = Append(@, Run(repo, g.uid))]
    /\ UNCHANGED <<request, merged, fields, siteConfig, lastGet, pc, extended, data,
                   result, trace, calls, classified, github, review, subs, rp>>

\* process(fields, options) of src/lib/Staticman.js: uid = sha1(...)
OldProcess ==
    /\ ids.impl = "sha1"
    /\ Len(ids.runs) < MaxRuns
    /\ \E repo \in Repos :
          ids' = [ids EXCEPT !.runs = Append(@, Run(repo, Sha1Uid("user", repo, ids.clock)))]
    /\ UNCHANGED <<request, merged, fields, siteConfig, lastGet, pc, extended, data,
                   result, trace, calls, classified, github, review, subs, rp>>

\* a submission creates its review branch; the gateway refuses a reference
\* that exists
CreateReviewBranch ==
    /\ \E i \in 1..Len(ids.runs) :
          /\ ids.runs[i].step = "new"
          /\ ids' = [ids EXCEPT !.runs[i].step =
                                    IF Holders(i) = {} THEN "branched" ELSE "refused"]
    /\ UNCHANGED <<request, merged, fields, siteConfig, lastGet, pc, extended, data,
                   result, trace, calls, classified, github, review, subs, rp>>

\* a submission writes its file on the branch it created
WriteOnBranch ==
    /\ \E i \in 1..Len(ids.runs) :
          /\ ids.runs[i].step = "branched"
          /\ ids' = [ids EXCEPT !.runs[i].step = "written"]
    /\ UNCHANGED <<request, merged, fields, siteConfig, lastGet, pc, extended, data,
                   result, trace, calls, classified, github, review, subs, rp>>

NextIds ==
    \/ TickClock
    \/ NewRequest
    \/ OldProcess
    \/ CreateReviewBranch
    \/ WriteOnBranch

InitIds ==
    \E impl \in {"uuid", "sha1"} :
        /\ parameters = [branch |-> <<"master">>]
        /\ configPath = SomePath
        /\ repoFile = BaseConfig
        /\ submitted = EmptyObject
        /\ fields = EmptyObject
        /\ options = MkOptions(Undefined, Undefined, Undefined, Undefined)
        /\ uid = <<"uid1">>
        /\ siteConfig = NoSiteConfig
        /\ lastGet = NoGet
        /\ pc = "ids"
        /\ extended = EmptyObject
        /\ data = NoFile
        /\ result = Pending
        /\ trace = <<>>
        /\ calls = <<>>
        /\ classified = "none"
        /\ github = <<>>
        /\ review = <<>>
        /\ subs = <<>>
        /\ rp = [subject |-> <<>>, out |-> <<>>, clock |-> <<>>, done |-> FALSE]
        /\ merged = NoMerge
        /\ ids = [NoIds EXCEPT !.impl = impl]

SpecIds == InitIds /\ [][NextIds]_vars

Spec == Init /\ [][Next]_vars

SpecResolve == InitResolve /\ [][NextResolve]_vars

SpecConfig == InitConfig /\ [][Next]_vars

SpecFields == InitFields /\ [][Next]_vars

SpecFiles == InitFiles /\ [][Next]_vars

SpecGenerated == InitGenerated /\ [][Next]_vars

-----------------------------------------------------------------------------
(* Properties *)

Range(seq) == {seq[i] : i \in 1..Len(seq)}

Last(seq) == seq[Len(seq)]

\* the run was rejected by the stage named
FailedAt(stage) ==
    result.status = "rejected" /\ trace # <<>> /\ Last(trace) = stage

\* the submitted fields that are not allowed and are not the empty string
Disallowed ==
    {k \in DOMAIN submitted :
        k \notin siteConfig.cfg.allowedFields /\ submitted[k] # Str(<<>>)}

\* the required names that the submission lacks or gives as blank text
Blank ==
    {k \in siteConfig.cfg.requiredFields :
        \/ k \notin DOMAIN submitted
        \/ (submitted[k].t = "string" /\ Trim(submitted[k].s) = <<>>)}

\* C1: once field validation has run, it has failed exactly when some
\* submitted field is disallowed with a value other than '' or some required
\* name is absent or '' after trimming; the failure then lists exactly the
\* disallowed names under INVALID_FIELDS and exactly the blank required names
\* under MISSING_REQUIRED_FIELDS, each entry present exactly when its list is
\* not empty.  A disallowed field whose value is '' is in neither list.
C1_ValidateFields ==
    "FieldValidation" \in Range(trace) =>
        /\ FailedAt("FieldValidation") <=> (Disallowed # {} \/ Blank # {})
        /\ FailedAt("FieldValidation") =>
              /\ result.error.shape = "array"
              /\ Codes(result.error) =
                    (IF Disallowed # {} THEN {"INVALID_FIELDS"} ELSE {})
                    \cup (IF Blank # {} THEN {"MISSING_REQUIRED_FIELDS"} ELSE {})
              /\ NamesUnder(result.error, "INVALID_FIELDS") = Disallowed
              /\ NamesUnder(result.error, "MISSING_REQUIRED_FIELDS") = Blank

\* validation fails with both lists, while a disallowed field that is '' is
\* left out of the invalid list
C1_Witness ==
    /\ FailedAt("FieldValidation")
    /\ Codes(result.error) = {"INVALID_FIELDS", "MISSING_REQUIRED_FIELDS"}

\* validation passes a submission that carries a disallowed field whose value is ''
C1_WitnessTolerated ==
    /\ "FieldGeneration" \in Range(trace)
    /\ \E k \in DOMAIN submitted :
          k \notin siteConfig.cfg.allowedFields /\ submitted[k] = Str(<<>>)

\* nothing has been written, opened, registered or delivered
NoEffects == github = <<>> /\ review = <<>> /\ subs = <<>>

\* C2: a classifier answer of spam fails the run with IS_SPAM, with no gateway
\* call, review request, subscriber registration or notification and before
\* field validation has run (so also for a submission with invalid fields); a
\* classifier error fails the run with that error; the classifier is asked
\* only under a configuration that enables spam checking.
C2_SpamAborts ==
    /\ classified = "spam" =>
          /\ result = Rejected(ErrString("IS_SPAM"))
          /\ NoEffects
          /\ "FieldValidation" \notin Range(trace)
    /\ classified = "error" =>
          /\ result = Rejected(ErrRaw("AKISMET_ERROR"))
          /\ NoEffects
          /\ "FieldValidation" \notin Range(trace)
    /\ "checkSpam" \in Range(calls) => siteConfig.cached /\ siteConfig.cfg.akismet
    /\ ("SpamCheck" \in Range(trace) /\ siteConfig.cfg.akismet) =>
          "checkSpam" \in Range(calls)

\* a submission with a disallowed field is classified as spam
C2_Witness ==
    /\ classified = "spam"
    /\ Disallowed # {}
    /\ pc = "done"

\* the positions of the gateway's writeFile calls on a branch
WritesOn(branch) ==
    {i \in 1..Len(github) : github[i].op = "writeFile" /\ github[i].branch = branch}

GatewayOps == {github[i].op : i \in 1..Len(github)}

\* C3: in a run that reached dispatch, under moderation every file write is on
\* the branch 'staticman_' + uid, none is on the target branch, and a review
\* request exists only from that branch and only after the write succeeded;
\* without moderation exactly one write is issued, on the target branch, and
\* no branch or review request is created.  No run does both.
C3_DispatchExclusive ==
    "Dispatch" \in Range(trace) =>
        /\ siteConfig.cfg.moderation =>
              /\ WritesOn(parameters.branch) = {}
              /\ \A i \in 1..Len(github) :
                    github[i].op = "writeFile" =>
                        github[i].branch = <<"staticman_">> \o uid
              /\ Cardinality(WritesOn(<<"staticman_">> \o uid)) <= 1
              /\ Len(review) <= 1
              /\ review # <<>> =>
                    /\ review[1].head = <<"staticman_">> \o uid
                    /\ \E i \in WritesOn(<<"staticman_">> \o uid) : github[i].ok
              /\ pc = "Result" => Len(review) = 1
        /\ ~siteConfig.cfg.moderation =>
              /\ Cardinality(WritesOn(parameters.branch)) = 1
              /\ GatewayOps = {"writeFile"}
              /\ Len(github) = 1
              /\ review = <<>>
        /\ ~(WritesOn(parameters.branch) # {}
              /\ (review # <<>> \/ "createBranch" \in GatewayOps))

\* a moderated run has written the file on its own branch and opened the review
C3_Witness ==
    /\ "Dispatch" \in Range(trace)
    /\ siteConfig.cfg.moderation
    /\ Len(review) = 1
    /\ WritesOn(<<"staticman_">> \o uid) # {}

\* the callback payload of this request
RequestPayload ==
    [configPath |-> configPath, fields |-> fields, options |-> options,
     parameters |-> parameters]

\* one branch, one file write on it and one review request carrying the fields
ModeratedEffects ==
    /\ Cardinality({i \in 1..Len(github) : github[i].op = "createBranch"}) = 1
    /\ Cardinality({i \in 1..Len(github) : github[i].op = "writeFile"}) = 1
    /\ \A i \in 1..Len(github) :
          github[i].op \in {"createBranch", "writeFile"} =>
              github[i].ok /\ github[i].branch = <<"staticman_">> \o uid
    /\ Len(review) = 1
    /\ review[1].body.table = fields

C5_InternalFieldsKept ==
    data # NoFile =>
        /\ Get(data.header, "_id") = Str(uid)
        /\ Truthy(options.parent) => Get(data.header, "_parent") = options.parent

StageOrder ==
    <<"ConfigLoading", "SpamCheck", "FieldValidation", "FieldGeneration",
      "Transform", "InternalFieldInjection", "Serialization", "PathResolution",
      "Dispatch", "Result">>

\* the error kinds each stage fails with
StageErrors(stage) ==
    CASE stage = "ConfigLoading" ->
            {"NO_CONFIG_PATH", "GITHUB_READING_FILE", "MISSING_CONFIG_BLOCK",
             "MISSING_CONFIG_FIELDS", "MISSING_ORIGIN", "INVALID_ORIGIN",
             "BRANCH_MISMATCH"}
      [] stage = "SpamCheck" -> {"IS_SPAM", "AKISMET_ERROR"}
      [] stage = "FieldValidation" -> {"MISSING_REQUIRED_FIELDS", "INVALID_FIELDS"}
      [] stage = "Serialization" -> {"NO_FRONTMATTER_CONTENT_TRANSFORM", "INVALID_FORMAT"}
      [] stage = "Dispatch" ->
            {"GITHUB_CREATING_PR", "GITHUB_WRITING_FILE", "GITHUB_FILE_ALREADY_EXISTS"}
      [] OTHER -> {}

Count(seq, x) == Cardinality({i \in 1..Len(seq) : seq[i] = x})

\* C6: the stages a run has executed are an initial part of the order config
\* loading, spam check, field validation, field generation, transform,
\* internal-field injection, serialization, path resolution, dispatch, result;
\* a rejected run has stopped at the stage whose error it carries, a resolved
\* run has executed them all, and the run has read the configuration, asked
\* the classifier and written a file at most once each.
C6_StageOrder ==
    /\ Len(trace) <= Len(StageOrder)
    /\ trace = SubSeq(StageOrder, 1, Len(trace))
    /\ result.status = "rejected" =>
          /\ pc = "done"
          /\ trace # <<>>
          /\ Codes(result.error) # {}
          /\ Codes(result.error) \subseteq StageErrors(Last(trace))
    /\ result.status = "resolved" => trace = StageOrder
    /\ \A c \in {"readFile", "checkSpam", "gateway"} : Count(calls, c) <= 1
    /\ Cardinality({i \in 1..Len(github) : github[i].op = "writeFile"}) <= 1

\* a run has been rejected by the serializer after the earlier stages ran
C6_Witness ==
    /\ FailedAt("Serialization")
    /\ "checkSpam" \in Range(calls)
    /\ "readFile" \in Range(calls)

\* C7: a cached site configuration has the request's target branch, and no
\* non-forced getSiteConfig succeeds after one has failed with BRANCH_MISMATCH.
C7_CachedOnlyWhenValid ==
    /\ siteConfig.cached => siteConfig.cfg.branch = parameters.branch
    /\ ~(lastGet.called /\ ~lastGet.force /\ lastGet.afterMismatch
          /\ lastGet.err = NoError)

ConfigErrors == {"MISSING_CONFIG_BLOCK", "MISSING_CONFIG_FIELDS"}

OriginErrors == {"MISSING_ORIGIN", "INVALID_ORIGIN"}

\* C8: when the last getSiteConfig call reached _validateConfig, it failed
\* with MISSING_CONFIG_BLOCK if the repository holds no configuration block,
\* and otherwise with MISSING_CONFIG_FIELDS naming exactly the undefined names
\* among allowedFields, branch, format and path; with all four defined it
\* reports neither error; after either error no site configuration is cached.
C8_ConfigFields ==
    lastGet.validated =>
        /\ ~repoFile.present => lastGet.err = ErrObject("MISSING_CONFIG_BLOCK", {})
        /\ (repoFile.present /\ ~({"allowedFields", "branch", "format", "path"}
                                   \subseteq repoFile.defined)) =>
              lastGet.err = ErrObject("MISSING_CONFIG_FIELDS",
                  {"allowedFields", "branch", "format", "path"} \ repoFile.defined)
        /\ (repoFile.present /\ {"allowedFields", "branch", "format", "path"}
                                   \subseteq repoFile.defined) =>
              Codes(lastGet.err) \cap ConfigErrors = {}
        /\ Codes(lastGet.err) \cap ConfigErrors # {} => ~siteConfig.cached

\* a configuration lacking two of the four required names has been rejected
C8_Witness ==
    /\ lastGet.validated
    /\ NamesUnder(lastGet.err, "MISSING_CONFIG_FIELDS") = {"format", "path"}

\* C9: when the last getSiteConfig call reached the origin check of
\* _validateConfig (the configuration block has its four required names):
\* with a non-empty allowedOrigins it failed with MISSING_ORIGIN if
\* options.origin is absent or empty, with INVALID_ORIGIN if the hostname of
\* options.origin is no entry of the list, and with neither if it is one;
\* with allowedOrigins absent or empty it failed with neither.  After either
\* origin failure no site configuration is cached, and a processEntry run
\* that met it executed no stage after config loading and had no effect.
C9_OriginCheck ==
    (lastGet.validated /\ repoFile.present
        /\ RequiredConfigFields \subseteq repoFile.defined) =>
        /\ (repoFile.allowedOrigins # {} /\ ~Truthy(options.origin)) =>
              lastGet.err = ErrObject("MISSING_ORIGIN", {})
        /\ (repoFile.allowedOrigins # {} /\ Truthy(options.origin)
                /\ Hostname(options.origin) \notin repoFile.allowedOrigins) =>
              lastGet.err = ErrObject("INVALID_ORIGIN", {})
        /\ (repoFile.allowedOrigins # {} /\ Truthy(options.origin)
                /\ Hostname(options.origin) \in repoFile.allowedOrigins) =>
              Codes(lastGet.err) \cap OriginErrors = {}
        /\ repoFile.allowedOrigins = {} => Codes(lastGet.err) \cap OriginErrors = {}
        /\ Codes(lastGet.err) \cap OriginErrors # {} =>
              /\ ~siteConfig.cached
              /\ trace # <<>> =>
                    /\ trace = <<"ConfigLoading">>
                    /\ result = Rejected(lastGet.err)
                    /\ NoEffects
                    /\ "checkSpam" \notin Range(calls)

\* a request whose origin has an allowed hostname passed config loading, with
\* a path after the host in the origin
C9_Witness ==
    /\ repoFile.allowedOrigins # {}
    /\ options.origin = Str(<<"http://", "example.com", "/page">>)
    /\ lastGet.validated
    /\ lastGet.err = NoError
    /\ "SpamCheck" \in Range(trace)

\* a processEntry run was rejected for an origin that is not allowed
C9_WitnessRejected ==
    /\ FailedAt("ConfigLoading")
    /\ Codes(result.error) = {"INVALID_ORIGIN"}

\* ReplaceAll with the origin of every symbol tracked: ins[i] tells whether
\* symbol i of the text was inserted as a replacement; hit tells whether an
\* occurrence that was replaced held an inserted symbol.
RECURSIVE TrackReplace(_, _, _, _)
TrackReplace(s, ins, m, new) ==
    IF Len(s) < Len(m) THEN [text |-> s, ins |-> ins, hit |-> FALSE]
    ELSE IF SubSeq(s, 1, Len(m)) = m
    THEN LET r == TrackReplace(SubSeq(s, Len(m) + 1, Len(s)),
                               SubSeq(ins, Len(m) + 1, Len(s)), m, new)
         IN  [text |-> new \o r.text,
              ins |-> [i \in 1..Len(new) |-> TRUE] \o r.ins,
              hit |-> r.hit \/ \E i \in 1..Len(m) : ins[i]]
    ELSE LET r == TrackReplace(Tail(s), Tail(ins), m, new)
         IN  [text |-> <<Head(s)>> \o r.text,
              ins |-> <<Head(ins)>> \o r.ins,
              hit |-> r.hit]

\* the replacements of _resolvePlaceholders, match by match, tracked
RECURSIVE TrackMatches(_, _, _, _, _)
TrackMatches(cur, ms, base, id, clock) ==
    IF ms = <<>> THEN cur
    ELSE LET r == TrackReplace(cur.text, cur.ins, Head(ms),
                               NewText(Head(ms), base, id, Head(clock)))
         IN  TrackMatches([r EXCEPT !.hit = r.hit \/ cur.hit], Tail(ms), base, id,
                          Tail(clock))

Tracked(subject, base, id, clock) ==
    TrackMatches([text |-> subject, ins |-> [i \in 1..Len(subject) |-> FALSE],
                  hit |-> FALSE],
                 Matches(subject), base, id, clock)

\* C10: in a call of _resolvePlaceholders no text inserted as the replacement
\* of a placeholder is substituted, wholly or in part, as a placeholder.
C10_NoRecursiveResolution ==
    rp.done =>
        LET t == Tracked(rp.subject, [fields |-> fields, options |-> options], uid, rp.clock)
        IN  t.text = rp.out /\ ~t.hit

\* the tracked replacements give the text the call returned
C10_TrackedIsResult ==
    rp.done =>
        Tracked(rp.subject, [fields |-> fields, options |-> options], uid, rp.clock).text = rp.out

-----------------------------------------------------------------------------
(* Path resolution *)

\* the context the dispatch callback resolves its templates in
RequestContext == [fields |-> fields, options |-> options]

\* a text with one trailing "/" removed if it has one
WithoutTrailingSlash(s) ==
    IF s # <<>> /\ Last(s) = "/" THEN SubSeq(s, 1, Len(s) - 1) ELSE s

\* the extension the claim gives each format
ExtensionOf(format) ==
    CASE format \in {"json", "JSON"} -> "json"
      [] format \in {"yaml", "yml", "YAML"} -> "yml"
      [] format = "frontmatter" -> "md"
      [] OTHER -> "none"

\* C11: every file the gateway is asked to write has the path <resolved path
\* template, one trailing '/' removed> '/' <filename> '.' <extension>, where
\* the filename is the unique entry identifier when no filename template is
\* configured and the resolved template otherwise, and the extension is json
\* for json, yml for yaml and yml, md for frontmatter; the template
\* posts/{options.parent}/{@id} with options.parent = 123 gives the directory
\* posts/123/<uid>.
C11_FilePath ==
    \A i \in 1..Len(github) :
        github[i].op = "writeFile" =>
            LET cfg == siteConfig.cfg
                dir == WithoutTrailingSlash(ResolvePlaceholders(cfg.path, RequestContext, uid, OneInstant(cfg.path)))
                name == IF cfg.filename = <<>> THEN uid
                        ELSE ResolvePlaceholders(cfg.filename, RequestContext, uid, OneInstant(cfg.filename))
            IN  /\ github[i].path = dir \o <<"/">> \o name \o <<".", ExtensionOf(cfg.format)>>
                /\ (cfg.path = <<"posts", "/", "{", "options.parent", "}", "/",
                                 "{", "@id", "}">>
                        /\ options.parent = Str(<<"123">>)) =>
                      dir = <<"posts", "/", "123", "/">> \o uid
                /\ cfg.path = <<"posts", "/", "/">> => dir = <<"posts", "/">>

\* a file was written under posts/123/<uid>, named by the identifier, and
\* another configuration's trailing '/' was removed
C11_Witness ==
    \E i \in 1..Len(github) :
        /\ github[i].op = "writeFile"
        /\ github[i].path = <<"posts", "/", "123", "/">> \o uid \o <<"/">> \o uid
                                \o <<".", "yml">>

\* a file was written for a path template that ends with '/'
C11_WitnessTrailing ==
    \E i \in 1..Len(github) :
        /\ github[i].op = "writeFile"
        /\ siteConfig.cfg.path = <<"posts", "/">>
        /\ github[i].path = <<"posts", "/", "T", ".", "json">>

-----------------------------------------------------------------------------
(* Outcomes *)

\* the shapes of a structured failure: a bare error kind, one {code, data}
\* object, or a list of them
StructuredShapes == {"string", "object", "array"}

\* C12: a processEntry run that has ended has either resolved with
\* {fields, redirect} or been rejected with a structured failure carrying an
\* error kind; it has never been rejected with a collaborator's own error
\* object or an internal exception.
C12_StructuredOutcome ==
    (pc = "done" /\ trace # <<>>) =>
        \/ result.status = "resolved"
        \/ /\ result.status = "rejected"
           /\ result.error.shape \in StructuredShapes
           /\ Codes(result.error) # {}

\* every gateway call of the dispatch was issued and succeeded
GatewaySucceeded ==
    /\ github # <<>>
    /\ \A i \in 1..Len(github) : github[i].ok
    /\ Last(github).op = (IF siteConfig.cfg.moderation THEN "createReview" ELSE "writeFile")

FailedSubs(op) == {i \in 1..Len(subs) : subs[i].op = op /\ ~subs[i].ok}

\* C13: when the stages up to dispatch and the gateway write have succeeded,
\* the run is not rejected and ends resolved with {fields, redirect}, whether
\* the subscriber registration and the notification delivery it started
\* succeed or fail.
C13_NotificationsSwallowed ==
    ("Dispatch" \in Range(trace) /\ GatewaySucceeded) =>
        /\ result.status # "rejected"
        /\ pc \in {"Result", "done"}
        /\ pc = "done" =>
              result = Resolved(fields, IF Truthy(options.redirect)
                                        THEN options.redirect ELSE False)

\* a run has resolved although both its registration and its delivery failed
C13_Witness ==
    /\ result.status = "resolved"
    /\ FailedSubs("set") # {}
    /\ FailedSubs("send") # {}

-----------------------------------------------------------------------------
(* Identifiers *)

\* C14: any two submissions have different unique entry identifiers and so
\* different review branch names and identifier-named files, and no two
\* submissions to one repository have both asked the gateway to create, or
\* written on, the same branch.
C14_DistinctIds ==
    \A i, j \in 1..Len(ids.runs) :
        i # j =>
            /\ ids.runs[i].uid # ids.runs[j].uid
            /\ BranchOf(ids.runs[i]) # BranchOf(ids.runs[j])
            /\ ~(/\ ids.runs[i].repo = ids.runs[j].repo
                  /\ BranchOf(ids.runs[i]) = BranchOf(ids.runs[j])
                  /\ ids.runs[i].step # "new"
                  /\ ids.runs[j].step # "new")

\* the identifiers of uuid.v1() are distinct, also within one clock reading
C14_UuidDistinct ==
    ids.impl = "uuid" =>
        \A i, j \in 1..Len(ids.runs) : i # j => ids.runs[i].uid # ids.runs[j].uid

-----------------------------------------------------------------------------
(* processMerge *)

C15_WitnessRejected ==
    /\ merged.status = "rejected"
    /\ merged.error = ErrString("BRANCH_MISMATCH")
    /\ subs = <<>>

-----------------------------------------------------------------------------
(* Serialization *)

\* extendedFields as _createFile received them
ExtendedBefore == ObjectAssign(InternalFields(options, uid), fields)

\* the fields that transforms declares frontmatterContent
Declared ==
    {k \in DOMAIN siteConfig.cfg.transforms :
        siteConfig.cfg.transforms[k] = "frontmatterContent"}

\* C16: once a run with format frontmatter has executed the serialization, it
\* has failed with NO_FRONTMATTER_CONTENT_TRANSFORM, with no file, when no
\* field of transforms is declared frontmatterContent; otherwise the file is
\* '---', the YAML of the fields without the declared one, '---', and the
\* declared field's value as the body.
C16_Frontmatter ==
    ("Serialization" \in Range(trace) /\ siteConfig.cfg.format = "frontmatter") =>
        /\ Declared = {} =>
              /\ result = Rejected(ErrString("NO_FRONTMATTER_CONTENT_TRANSFORM"))
              /\ Last(trace) = "Serialization"
              /\ data = NoFile
        /\ Declared # {} =>
              /\ ~FailedAt("Serialization")
              /\ data.format = "frontmatter"
              /\ data.parts = <<"---", "yaml", "---", "body">>
              /\ \E k \in Declared :
                    /\ data.body = Get(ExtendedBefore, k)
                    /\ k \notin DOMAIN data.header
                    /\ data.header = [j \in (DOMAIN ExtendedBefore) \ {k} |->
                                          ExtendedBefore[j]]

\* a document with the header fields title: T (and the generated ones) and
\* the body Hello
C16_Witness ==
    /\ data.format = "frontmatter"
    /\ data.body = Str(<<"Hello">>)
    /\ Get(data.header, "title") = Str(<<"T">>)
    /\ DOMAIN data.header = {"_id", "date", "title"}

-----------------------------------------------------------------------------
(* Placeholder values *)

\* the text a placeholder name stands for: the clock, the identifier, or the
\* value found in the context; '' when nothing is found and, with falsyEmpty,
\* also when the value found is falsy
ValueOf(name, base, id, falsyEmpty) ==
    IF name = <<"@timestamp">> THEN <<"now_ms">>
    ELSE IF name = <<"@id">> THEN id
    ELSE LET v == ObjectPathGet(base, name)
         IN  IF v = Undefined \/ (falsyEmpty /\ ~Truthy(v)) THEN <<>> ELSE v.s

\* the template read once from left to right, every {name} replaced by the
\* text its name stands for
RECURSIVE Substituted(_, _, _, _)
Substituted(s, base, id, falsyEmpty) ==
    IF s = <<>> THEN <<>>
    ELSE IF Head(s) = "{" /\ NextClose(s, 1) # 0
    THEN ValueOf(SubSeq(s, 2, NextClose(s, 1) - 1), base, id, falsyEmpty)
         \o Substituted(SubSeq(s, NextClose(s, 1) + 1, Len(s)), base, id, falsyEmpty)
    ELSE <<Head(s)>> \o Substituted(Tail(s), base, id, falsyEmpty)

\* a text with every reading of the clock written as the first reading
Untimed(s) ==
    [i \in 1..Len(s) |-> IF s[i] \in {Ms(k) : k \in 0..MaxTick} THEN Ms(0) ELSE s[i]]

\* no placeholder of the template has a "{" in its name
PlainNames(s) ==
    \A i \in 1..Len(Matches(s)) :
        \A j \in 2..Len(Matches(s)[i]) : Matches(s)[i][j] # "{"

\* the call rp substituted no text that an earlier substitution had inserted
NothingResubstituted == ~Tracked(rp.subject, RequestContext, uid, rp.clock).hit

\* C17: a call of _resolvePlaceholders returns the template with every
\* {name} replaced by the epoch milliseconds for @timestamp, by the unique
\* entry identifier for @id, and otherwise by the value the dotted-path
\* lookup of name finds, '' standing only for a lookup that finds nothing; a
\* template without a {...} token is returned unchanged.  (Stated for
\* templates whose names hold no "{" and calls that substituted no inserted
\* text.)
C17_ResolvesEach ==
    rp.done =>
        /\ Matches(rp.subject) = <<>> => rp.out = rp.subject
        /\ (PlainNames(rp.subject) /\ NothingResubstituted) =>
              Untimed(rp.out) = Substituted(rp.subject, RequestContext, uid, FALSE)

\* what the call does return: '' also for a value that is found and falsy
C17_FalsyIsEmpty ==
    rp.done =>
        /\ Matches(rp.subject) = <<>> => rp.out = rp.subject
        /\ (PlainNames(rp.subject) /\ NothingResubstituted) =>
              Untimed(rp.out) = Substituted(rp.subject, RequestContext, uid, TRUE)

-----------------------------------------------------------------------------
(* Unsupported formats *)

\* the format values the serializer knows, in the spellings configured
SupportedFormats == {"json", "JSON", "yaml", "YAML", "yml", "frontmatter"}

\* C18: a processEntry run under a configuration whose format is none of
\* json, yaml, yml and frontmatter (in any letter case) never resolves and
\* never reaches path resolution; once it has executed the serialization it
\* has failed there with INVALID_FORMAT, with no file, no gateway call, no
\* subscriber registration and no notification.  No file path that the gateway
\* receives ends with the extension undefined.
C18_InvalidFormat ==
    /\ (trace # <<>> /\ siteConfig.cached
            /\ siteConfig.cfg.format \notin SupportedFormats) =>
          /\ result.status # "resolved"
          /\ "PathResolution" \notin Range(trace)
          /\ NoEffects
          /\ "gateway" \notin Range(calls)
          /\ "Serialization" \in Range(trace) =>
                /\ result = Rejected(ErrString("INVALID_FORMAT"))
                /\ Last(trace) = "Serialization"
                /\ pc = "done"
                /\ data = NoFile
    /\ \A i \in 1..Len(github) :
          github[i].path # <<>> => Last(github[i].path) \in {"json", "yml", "md"}

\* a run with format xml and valid fields was rejected by the serializer
C18_Witness ==
    /\ siteConfig.cfg.format = "xml"
    /\ FailedAt("Serialization")
    /\ result.error = ErrString("INVALID_FORMAT")
    /\ DOMAIN fields = {"name", "title", "date"}

-----------------------------------------------------------------------------
(* The success result *)

\* the submitted text of field k after trimming and, for a field whose
\* transform is md5 and whose trimmed text is not empty, hashing
Processed(k) ==
    LET t == Trim(submitted[k].s)
    IN  IF k \in DOMAIN siteConfig.cfg.transforms
           /\ siteConfig.cfg.transforms[k] = "md5" /\ t # <<>>
        THEN Str(Md5(t))
        ELSE Str(t)

\* C19: a resolved processEntry run returns redirect equal to
\* options.redirect when the caller supplied one and false otherwise, and
\* fields holding every submitted field trimmed and transformed plus the
\* generated date field, and nothing else; by then the direct write, or the
\* branch write and the review request, has succeeded.
C19_SuccessResult ==
    result.status = "resolved" =>
        /\ result.redirect = (IF options.redirect # Undefined
                               THEN options.redirect ELSE False)
        /\ DOMAIN result.fields = (DOMAIN submitted) \cup {"date"}
        /\ \A k \in DOMAIN submitted : result.fields[k] = Processed(k)
        /\ result.fields["date"] = [t |-> "number", s |-> <<"now_ms">>]
        /\ GatewaySucceeded
        /\ siteConfig.cfg.moderation => Len(review) = 1
        /\ \E i \in 1..Len(github) : github[i].op = "writeFile" /\ github[i].ok

\* a moderated run resolved with the caller's redirect and with a trimmed
\* and a hashed field
C19_Witness ==
    /\ result.status = "resolved"
    /\ result.redirect = Str(<<"http://", "example.com", "/thanks">>)
    /\ Get(result.fields, "name") = Str(<<"Hello">>)
    /\ Get(result.fields, "title") = Str(Md5(<<"T">>))
    /\ siteConfig.cfg.moderation

-----------------------------------------------------------------------------
(* The review path *)

ReviewOrder == <<"getBranch", "createBranch", "writeFile", "createReview">>

\* C20: on the moderation path the gateway calls issued are an initial part
\* of: read the head commit of the target branch, create staticman_<uid> from
\* it, write the file on the new branch, open the review request from the new
\* branch onto the target branch; only the last call issued can have failed,
\* a failed call rejects the run and opens no review request, and no call
\* deletes a branch.
C20_ReviewPathOrder ==
    ("Dispatch" \in Range(trace) /\ siteConfig.cfg.moderation) =>
        /\ Len(github) \in 1..4
        /\ \A i \in 1..Len(github) :
              /\ github[i].op = ReviewOrder[i]
              /\ i < Len(github) => github[i].ok
              /\ github[i].branch =
                    (IF i = 1 THEN parameters.branch ELSE <<"staticman_">> \o uid)
        /\ Len(github) >= 2 => github[2].from = parameters.branch
        /\ Len(github) = 4 => github[4].onto = parameters.branch
        /\ ~Last(github).ok =>
              /\ result.status = "rejected"
              /\ pc = "done"
              /\ review = <<>>
        /\ Last(github).ok => Len(github) = 4 /\ Len(review) = 1
        /\ "deleteBranch" \notin GatewayOps

\* the branch was created, the write on it failed, and the run was rejected
\* with the branch left in place
C20_Witness ==
    /\ siteConfig.cfg.moderation
    /\ Len(github) = 3
    /\ github[2].op = "createBranch" /\ github[2].ok
    /\ github[3].op = "writeFile" /\ ~github[3].ok
    /\ result.status = "rejected"

-----------------------------------------------------------------------------
(* Failures of writeFile *)

\* the writeFile calls of the direct path that failed
FailedDirectWrites ==
    {i \in 1..Len(github) :
        github[i].op = "writeFile" /\ ~github[i].ok /\ ~siteConfig.cfg.moderation}

\* C21: a run whose direct writeFile failed is rejected with the one object
\* GITHUB_FILE_ALREADY_EXISTS when the underlying error's message is JSON
\* whose message says that "sha" wasn't supplied, and with the one object
\* GITHUB_WRITING_FILE for every other underlying error (no message, an
\* empty one, one that is no JSON, JSON without a message text); it is never
\* rejected with the underlying error itself, and a run whose write
\* succeeded is not rejected.
C21_WriteFileErrors ==
    /\ \A i \in FailedDirectWrites :
          /\ github[i].cause \in WriteErrors
          /\ result.status = "rejected"
          /\ result.error.shape = "object"
          /\ github[i].cause = "jsonShaMessage" =>
                result.error = ErrObject("GITHUB_FILE_ALREADY_EXISTS", {})
          /\ github[i].cause # "jsonShaMessage" =>
                result.error = ErrObject("GITHUB_WRITING_FILE", {})
    /\ ("Dispatch" \in Range(trace) /\ ~siteConfig.cfg.moderation
            /\ FailedDirectWrites = {}) =>
          /\ result.status # "rejected"
          /\ \A i \in 1..Len(github) : github[i].cause = "none"

\* a write failed with a JSON message that has no message text and the run
\* was rejected with GITHUB_WRITING_FILE
C21_Witness ==
    \E i \in FailedDirectWrites :
        /\ github[i].cause = "jsonNoMessage"
        /\ result = Rejected(ErrObject("GITHUB_WRITING_FILE", {}))

\* a write refused because the path has content was rejected as such
C21_WitnessExists ==
    \E i \in FailedDirectWrites :
        /\ github[i].cause = "jsonShaMessage"
        /\ result = Rejected(ErrObject("GITHUB_FILE_ALREADY_EXISTS", {}))

-----------------------------------------------------------------------------
(* Tokens replaced together *)

\* the positions of s where an occurrence of the text m starts
OccurrencesOf(m, s) ==
    {i \in 1..Len(s) : i + Len(m) - 1 <= Len(s) /\ SubSeq(s, i, i + Len(m) - 1) = m}

\* the placeholder tokens of the template the call rp was given
TokensOf(subject) == Range(Matches(subject))

\* the readings of the clock that stand in a text
ReadingsIn(s) == {s[i] : i \in 1..Len(s)} \cap {Ms(k) : k \in 0..MaxTick}

\* the call rp with the origin of every symbol of its result
TrackedCall == Tracked(rp.subject, RequestContext, uid, rp.clock)

\* the occurrence of m at position i of the tracked result is made of
\* symbols of the template only
OwnOccurrence(m, i) ==
    \A j \in i..(i + Len(m) - 1) : ~TrackedCall.ins[j]

C22_WitnessRemains ==
    /\ rp.done
    /\ \E m \in TokensOf(rp.subject) : OccurrencesOf(m, rp.out) # {}

-----------------------------------------------------------------------------
(* Generated fields *)

\* the fields as _validateFields hands them to _applyGeneratedFields
TrimmedSubmission == TrimFields(submitted)

\* the names generatedFields has entries for
GeneratedNames ==
    {siteConfig.cfg.generatedFields[i].field : i \in 1..Len(siteConfig.cfg.generatedFields)}

\* what the entry r of generatedFields leaves in the fields, by its kind
WrittenAsConfigured(r) ==
    /\ r.type = "literal" => Get(fields, r.field) = r.value
    /\ r.type = "date" /\ r.format = "timestamp" =>
          Get(fields, r.field) = [t |-> "number", s |-> <<"now_ms">>]
    /\ (r.type = "slugify" /\ options.field = Str(<<"title">>)
          /\ "title" \in DOMAIN submitted) =>
          Get(fields, r.field) = Str(<<"my", "-", "title">>)
    /\ (r.type = "slugify" /\ options.field.t # "string") =>
          Get(fields, r.field) = Get(TrimmedSubmission, r.field)
    /\ r.type \notin {"literal", "date", "slugify"} =>
          Get(fields, r.field) = Get(TrimmedSubmission, r.field)

\* the fields generatedFields does not name are the submitted ones
OthersUnchanged ==
    /\ DOMAIN fields \subseteq DOMAIN submitted \cup GeneratedNames
    /\ \A k \in DOMAIN submitted \ GeneratedNames :
          k \in DOMAIN fields /\ fields[k] = TrimmedSubmission[k]

\* C23: after _applyGeneratedFields every entry of generatedFields that is
\* not a rule object (a literal, an array) has its configured value written,
\* a date rule its date, a slugify rule with a string options.field the
\* lower-cased slug of the field it names, a rule of an unknown type and a
\* slugify rule without a string options.field nothing; a generated value
\* stands in place of the submitted one and no other field is changed.
C23_GeneratedValues ==
    "FieldGeneration" \in Range(trace) =>
        /\ \A i \in 1..Len(siteConfig.cfg.generatedFields) :
              WrittenAsConfigured(siteConfig.cfg.generatedFields[i])
        /\ OthersUnchanged

\* the same of the runs in which no iteration threw
C23_UnlessThrown ==
    ("FieldGeneration" \in Range(trace) /\ result # Rejected(ErrRaw("TypeError"))) =>
        /\ \A i \in 1..Len(siteConfig.cfg.generatedFields) :
              WrittenAsConfigured(siteConfig.cfg.generatedFields[i])
        /\ OthersUnchanged

\* a run generated a slug, a date and an array, and replaced the submitted name
C23_Reached ==
    /\ "FieldGeneration" \in Range(trace)
    /\ result # Rejected(ErrRaw("TypeError"))
    /\ Get(submitted, "name") = Str(<<"a">>)
    /\ Get(fields, "name") = Str(<<"fixed">>)
    /\ Get(fields, "slug") = Str(<<"my", "-", "title">>)
    /\ Get(fields, "tags") = [t |-> "array", s |-> <<"a", "b">>]
    /\ "date" \in DOMAIN fields

\* a run with a null entry was rejected with the TypeError of the read
C23_ReachedNull ==
    /\ result = Rejected(ErrRaw("TypeError"))
    /\ \E i \in 1..Len(siteConfig.cfg.generatedFields) :
          siteConfig.cfg.generatedFields[i].value = Null

-----------------------------------------------------------------------------
(* Notifications and the write *)

\* the calls of the subscriptions manager with the operation op
SubsOf(op) == {i \in 1..Len(subs) : subs[i].op = op}

\* C24: in a processEntry run without moderation a subscriber is registered
\* and a notification is sent only when the write on the target branch has
\* succeeded; a run under moderation sends no notification.
C24_NotifyOnlyAfterWrite ==
    "Dispatch" \in Range(trace) =>
        /\ ~siteConfig.cfg.moderation =>
              (SubsOf("set") \cup SubsOf("send") # {} => GatewaySucceeded)
        /\ siteConfig.cfg.moderation => SubsOf("send") = {}

\* the part about moderation alone: no processEntry run under moderation
\* sends a notification
C24_ModeratedNeverSends ==
    ("Dispatch" \in Range(trace) /\ siteConfig.cfg.moderation) => SubsOf("send") = {}

\* a run without moderation registered the submitter and sent the
\* notification, and its write on the target branch failed
C24_ReachedFailedWrite ==
    /\ "Dispatch" \in Range(trace)
    /\ ~siteConfig.cfg.moderation
    /\ SubsOf("set") # {}
    /\ SubsOf("send") # {}
    /\ FailedDirectWrites # {}
    /\ result.status = "rejected"

\* a run under moderation registered the submitter
C24_ReachedModerated ==
    /\ "Dispatch" \in Range(trace)
    /\ siteConfig.cfg.moderation
    /\ SubsOf("set") # {}

-----------------------------------------------------------------------------
(* Field names of the written file *)

\* the names the configuration allows a written file to hold
KnownNames ==
    siteConfig.cfg.allowedFields
        \cup {siteConfig.cfg.generatedFields[i].field :
                 i \in 1..Len(siteConfig.cfg.generatedFields)}
        \cup {"_id", "_parent"}

\* the field names of the file a write was asked for
WrittenNames(i) == DOMAIN github[i].data.header

\* C25: every field name of a file written by a resolved processEntry run
\* is in allowedFields, a key of generatedFields, or _id or _parent; a
\* submitted field that is not allowed is not in the file, also when its
\* value is the empty string.
C25_OnlyKnownFields ==
    (result.status = "resolved" /\ "Dispatch" \in Range(trace)) =>
        \A i \in 1..Len(github) :
            github[i].op = "writeFile" => WrittenNames(i) \subseteq KnownNames

\* a resolved run wrote a file that holds a submitted field that is not
\* allowed, with the empty string
C25_Reached ==
    /\ result.status = "resolved"
    /\ \E i \in 1..Len(github) :
          /\ github[i].op = "writeFile" /\ github[i].ok
          /\ \E k \in WrittenNames(i) \ KnownNames :
                /\ submitted[k] = Str(<<>>)
                /\ github[i].data.header[k] = Str(<<>>)

\* a field that is not allowed and not empty stops the run before any write
C25_NonEmptyRejected ==
    (\E k \in DOMAIN submitted :
        k \notin siteConfig.cfg.allowedFields /\ submitted[k] # Str(<<>>)
        /\ "FieldValidation" \in Range(trace)) =>
        /\ github = <<>>
        /\ result.status # "resolved"

====
